---- MODULE Spec2Model ----
(***************************************************************************)
(* A model of the matching core of two_percent:                            *)
(*   - ItemPool (src/src/item.rs): the locked item store with its `taken`  *)
(*     watermark and reserved header items;                                *)
(*   - Matcher::run and MatcherControl (src/src/matcher.rs): one           *)
(*     coordinator thread per run, the result buffer behind a spin lock,   *)
(*     kill / take / into_items / drop on the control handle.              *)
(* Each coordinator step is one action, so that the handle's operations    *)
(* and the pool's operations interleave with a pass as threads do.         *)
(***************************************************************************)
EXTENDS Integers, Sequences, FiniteSets, TLC

\* ---------------------------------------------------------------- bounds
MaxPool == 2          \* items the input source hands to append(), in all
MaxBatch == 2         \* longest batch handed to one append()
MaxReserve == 1       \* largest lines_to_reserve
NumAddr == 2          \* distinct stack addresses a closure argument may get
FairMaxPool == 1      \* items the input source hands over in FairSpec
PoolSpecMaxItems == 4 \* items offered to the pool in PoolSpec
PoolSpecMaxBatch == 3 \* longest batch in PoolSpec
PoolSpecMaxReserve == 2 \* largest lines_to_reserve in PoolSpec
MaxCriteria == 4      \* longest criteria list handed to RankBuilder::new
MaxEngines == 2       \* most sub-engines of an AndEngine or OrEngine
LockMaxPool == 1      \* items the input source hands over in LockSpec

Addr == 1..NumAddr
Queries == {"", "q"}

\* ------------------------------------------------------------ data types
None == [some |-> FALSE]
Some(x) == [some |-> TRUE, v |-> x]

UNMATCHED_RANK == <<0, 0, 0, 0>>
UNMATCHED_RANGE == None

\* The engine the factory builds for a query (matcher.rs:117), applied to an
\* item (matcher.rs:185): an empty query matches every item, the query "q"
\* matches the items with an odd number.
match_item(q, item) ==
    IF q = ""
    THEN Some([rank |-> <<0, 0, 1, 0>>, matched_range |-> <<0, 0>>])
    ELSE IF item % 2 = 1
         THEN Some([rank |-> <<-16, 0, 1, 0>>, matched_range |-> <<0, 1>>])
         ELSE None

MatchedItem(item, rank, matched_range, item_idx) ==
    [item |-> item, rank |-> rank, matched_range |-> matched_range,
     item_idx |-> item_idx]

\* previous_results handed to run(): nothing, or one entry of an older pass
PreviousResults ==
    { <<>>, << MatchedItem(2, <<-3, 1, 2, 0>>, Some(<<1, 2>>), 5) >> }

min(a, b) == IF a < b THEN a ELSE b

VARIABLES
    \* ---- ItemPool
    pool,              \* Vec<Arc<T>> behind the pool spin lock
    length,            \* AtomicUsize
    taken,             \* AtomicUsize
    reserved_items,    \* Vec<Weak<T>> behind its own spin lock
    lines_to_reserve,
    pool_lock,         \* who holds the lock of `pool`: Free, Coord or Client
    \* ---- owners of the shared objects
    thread_pool_owned, \* the session still holds the Arc<ThreadPool>
    item_pool_owned,   \* the session still holds the Arc<ItemPool>
    \* ---- the MatcherControl of the current run
    ctl,               \* "none" | "live" | "dropping" | "dropped"
    stopped,
    processed,
    matched,
    items,             \* the result buffer, Arc<SpinLock<Vec<MatchedItem>>>
    items_lock,        \* TRUE while the coordinator holds the buffer's lock
    opt_thread_handle, \* TRUE = Some(handle)
    \* ---- arguments of run()
    query,
    disabled,
    previous_results,
    \* ---- the coordinator thread of the run
    pc,
    num_taken,         \* matcher.rs:135
    start,             \* ItemPoolGuard.start
    snapshot,          \* the slice the guard derefs to
    group_map,
    index,             \* position of the iterator in the snapshot
    heartbeat,         \* messages sent on tx_heartbeat
    \* ---- the thread that owns the handle
    caller,            \* "idle" | "joining" (inside the join of kill())
    \* ---- history
    engine_calls,      \* invocations of matcher_engine.match_item in the run
    degenerate,        \* the run failed to upgrade a weak reference
    published,         \* the coordinator has written the result buffer
    drained,           \* the handle's owner has taken the buffer
    kill_unvisited,    \* kill() stored the flag while processed was 0
    complete,          \* the pass left its loop with the snapshot exhausted
    appended,          \* every item handed to append() since creation/clear
    delivered,         \* the slices take() returned, up to the first reset()
    last_append,       \* return value of the last append(), -1 before
    reset_seen,        \* reset() was called since creation/clear
    unvisited,         \* items a pass took and did not visit, since the
                       \* last reset()/clear()
    \* ---- RankBuilder
    rb_input,          \* the criteria list handed to RankBuilder::new
    rb_built,          \* TRUE once RankBuilder::new has returned
    criterion,         \* RankBuilder.criterion
    rank_args,         \* the arguments of the build_rank call, None before
    rank_out,          \* what build_rank returned, or that it unwound
    \* ---- AndEngine / OrEngine, one call of match_item
    eng_kind,          \* "And" | "Or", "none" while no combinator exists
    engines,           \* engines[i] = what sub-engine i returns for the item
    text,              \* item.text(): the byte length of each character
    eng_pc,            \* "idle" | "loop" | "merge" | "done"
    eng_i,             \* sub-engines evaluated so far
    results,           \* AndEngine::match_item, the vector `results`
    ret,               \* the value match_item returned
    \* ---- a caller of ItemPool::num_not_taken
    nnt_pc,            \* "idle" | "loaded_length" | "done"
    nnt_length,        \* what self.length.load returned
    nnt_taken,         \* what self.taken.load returned
    nnt_ret,           \* what the call returned, or that it unwound
    \* ---- the ingestion thread and the UI thread, lock by lock
    reserved_lock,     \* holder of the lock of reserved_items, Free if none
    ing_pc,            \* "idle" | "append" | "append_reserved"
    ui_pc              \* "idle" | "reset" | "clear" | "clear_second" |
                       \* "reserved" | "reserved_held"

vars == << pool, length, taken, reserved_items, lines_to_reserve, pool_lock,
           thread_pool_owned, item_pool_owned,
           ctl, stopped, processed, matched, items, items_lock,
           opt_thread_handle, query, disabled, previous_results,
           pc, num_taken, start, snapshot, group_map, index, heartbeat,
           caller, engine_calls, degenerate, published, drained,
           kill_unvisited, complete,
           appended, delivered, last_append, reset_seen, unvisited,
           rb_input, rb_built, criterion, rank_args, rank_out,
           eng_kind, engines, text, eng_pc, eng_i, results, ret,
           nnt_pc, nnt_length, nnt_taken, nnt_ret,
           reserved_lock, ing_pc, ui_pc >>

rank_vars == << rb_input, rb_built, criterion, rank_args, rank_out >>

engine_vars == << eng_kind, engines, text, eng_pc, eng_i, results, ret >>

\* the state of the objects that are no part of the pool or of a run
reader_vars == << nnt_pc, nnt_length, nnt_taken, nnt_ret >>

lock_vars == << reserved_lock, ing_pc, ui_pc >>

other_vars == << rank_vars, engine_vars, reader_vars, lock_vars >>

pool_vars == << pool, length, taken, reserved_items, lines_to_reserve,
                pool_lock >>

history == << appended, delivered, last_append, reset_seen, unvisited >>

owner_vars == << thread_pool_owned, item_pool_owned >>

run_args == << query, disabled, previous_results >>

coord_vars == << pc, num_taken, start, snapshot, group_map, index,
                 heartbeat, engine_calls, degenerate, published, complete >>

handle_vars == << ctl, stopped, processed, matched, items, items_lock,
                  opt_thread_handle, caller, drained, kill_unvisited >>

Free == 0     \* pool_lock: nobody holds the pool's lock
Coord == 1    \* pool_lock: held by the ItemPoolGuard of the coordinator
Client == 2   \* pool_lock: held by the guard of another caller of take()
Ingest == 3   \* a lock held by the ingestion thread, inside append()
Ui == 4       \* a lock held by the UI thread

\* the fields of a MatcherControl and of its coordinator at creation, and
\* again once the handle was dropped and its objects freed
FreshRun ==
    /\ stopped = FALSE
    /\ processed = 0
    /\ matched = 0
    /\ items = <<>>
    /\ items_lock = FALSE
    /\ opt_thread_handle = FALSE
    /\ query = ""
    /\ disabled = FALSE
    /\ previous_results = <<>>
    /\ num_taken = 0
    /\ start = 0
    /\ snapshot = <<>>
    /\ group_map = <<>>
    /\ index = 0
    /\ heartbeat = 0
    /\ caller = "idle"
    /\ engine_calls = 0
    /\ degenerate = FALSE
    /\ published = FALSE
    /\ drained = FALSE
    /\ kill_unvisited = FALSE
    /\ complete = FALSE

\* -------------------------------------------------------------- ItemPool
\* ItemPool::new().lines_to_reserve(k), and no run started yet
InitWith(k) ==
    /\ pool = <<>>
    /\ length = 0
    /\ taken = 0
    /\ reserved_items = <<>>
    /\ lines_to_reserve = k
    /\ pool_lock = Free
    /\ thread_pool_owned = TRUE
    /\ item_pool_owned = TRUE
    /\ ctl = "none"
    /\ pc = "none"
    /\ FreshRun
    /\ appended = <<>>
    /\ delivered = <<>>
    /\ last_append = -1
    /\ reset_seen = FALSE
    /\ unvisited = {}

\* no RankBuilder was made
RankIdle ==
    /\ rb_input = <<>>
    /\ rb_built = FALSE
    /\ criterion = <<>>
    /\ rank_args = None
    /\ rank_out = None

\* no combinator engine was made
EngineIdle ==
    /\ eng_kind = "none"
    /\ engines = <<>>
    /\ text = <<>>
    /\ eng_pc = "idle"
    /\ eng_i = 0
    /\ results = <<>>
    /\ ret = None

\* nobody is inside num_not_taken
ReaderIdle ==
    /\ nnt_pc = "idle"
    /\ nnt_length = 0
    /\ nnt_taken = 0
    /\ nnt_ret = None

\* the ingestion thread and the UI thread are in no call on the pool
LockIdle ==
    /\ reserved_lock = Free
    /\ ing_pc = "idle"
    /\ ui_pc = "idle"

OtherIdle == RankIdle /\ EngineIdle /\ ReaderIdle /\ LockIdle

Init == (\E k \in 0..MaxReserve : InitWith(k)) /\ OtherIdle

\* item.rs:184-193: the items append() pushes onto the main vector
AppendToPool(header_len, batch) ==
    LET to_reserve == lines_to_reserve - header_len
    IN  IF to_reserve > 0
        THEN SubSeq(batch, 1, min(to_reserve, Len(batch)))
        ELSE batch

\* item.rs:184-193: the items append() pushes onto the reserved vector
AppendToReserved(header_len, batch) ==
    LET to_reserve == lines_to_reserve - header_len
    IN  IF to_reserve > 0
        THEN SubSeq(batch, 1, min(to_reserve, Len(batch)))
        ELSE <<>>

\* the batch of m items the input source hands over next: the items of a
\* source are numbered in the order it produces them
NextBatch(m) == [i \in 1..m |-> Len(appended) + i]

\* ItemPool::append, both locks taken and released inside the call
append(batch) ==
    /\ item_pool_owned
    /\ pool_lock = Free
    /\ pool' = pool \o AppendToPool(Len(reserved_items), batch)
    /\ reserved_items' =
           reserved_items \o AppendToReserved(Len(reserved_items), batch)
    /\ length' = Len(pool')
    /\ last_append' = Len(pool')
    /\ appended' = appended \o batch
    /\ UNCHANGED << taken, lines_to_reserve, pool_lock, delivered,
                    reset_seen, unvisited >>
    /\ UNCHANGED << owner_vars, run_args, coord_vars, handle_vars >>
    /\ UNCHANGED other_vars

\* a reset() that leaves the watermark where it is
reset_NoRewind ==
    /\ item_pool_owned
    /\ pool_lock = Free
    /\ reset_seen' = TRUE
    /\ delivered' = <<>>
    /\ unvisited' = {}
    /\ UNCHANGED << pool, length, taken, reserved_items, lines_to_reserve,
                    pool_lock, appended, last_append >>
    /\ UNCHANGED << owner_vars, run_args, coord_vars, handle_vars >>
    /\ UNCHANGED other_vars

\* ItemPool::reset
reset ==
    /\ item_pool_owned
    /\ pool_lock = Free
    /\ taken' = 0
    /\ reset_seen' = TRUE
    /\ delivered' = <<>>
    /\ unvisited' = {}
    /\ UNCHANGED << pool, length, reserved_items, lines_to_reserve,
                    pool_lock, appended, last_append >>
    /\ UNCHANGED << owner_vars, run_args, coord_vars, handle_vars >>
    /\ UNCHANGED other_vars

\* a clear() that forgets the watermark
clear_KeepsTaken ==
    /\ item_pool_owned
    /\ pool_lock = Free
    /\ pool' = <<>>
    /\ reserved_items' = <<>>
    /\ length' = 0
    /\ appended' = <<>>
    /\ delivered' = <<>>
    /\ last_append' = -1
    /\ reset_seen' = FALSE
    /\ unvisited' = {}
    /\ UNCHANGED << taken, lines_to_reserve, pool_lock >>
    /\ UNCHANGED << owner_vars, run_args, coord_vars, handle_vars >>
    /\ UNCHANGED other_vars

\* a clear() that forgets the reserved items
clear_KeepsReserved ==
    /\ item_pool_owned
    /\ pool_lock = Free
    /\ pool' = <<>>
    /\ taken' = 0
    /\ length' = 0
    /\ appended' = <<>>
    /\ delivered' = <<>>
    /\ last_append' = -1
    /\ reset_seen' = FALSE
    /\ unvisited' = {}
    /\ UNCHANGED << reserved_items, lines_to_reserve, pool_lock >>
    /\ UNCHANGED << owner_vars, run_args, coord_vars, handle_vars >>
    /\ UNCHANGED other_vars

\* ItemPool::clear
clear ==
    /\ item_pool_owned
    /\ pool_lock = Free
    /\ pool' = <<>>
    /\ reserved_items' = <<>>
    /\ taken' = 0
    /\ length' = 0
    /\ appended' = <<>>
    /\ delivered' = <<>>
    /\ last_append' = -1
    /\ reset_seen' = FALSE
    /\ unvisited' = {}
    /\ UNCHANGED << lines_to_reserve, pool_lock >>
    /\ UNCHANGED << owner_vars, run_args, coord_vars, handle_vars >>
    /\ UNCHANGED other_vars

\* a take() that gives the lock back when it returns
GuardLock_Dropped(holder) == Free

\* ItemPool::take: the lock stays with the guard that take() returns
GuardLock(holder) == holder

\* a guard that derefs to the whole vector
GuardSlice_Whole(vec, from) == vec

\* ItemPoolGuard::deref, &guard[start..]
GuardSlice(vec, from) == SubSeq(vec, from + 1, Len(vec))

\* the slices take() has returned, one after the other, up to the first
\* reset()
Delivered(slice) == IF reset_seen THEN delivered ELSE delivered \o slice

\* a swap that leaves the watermark where it was
SwappedTaken_Stale == taken

\* item.rs:201: the value take() swaps into `taken`, guard.len()
SwappedTaken == Len(pool)

\* ItemPool::take by a caller other than the coordinator of the run (the
\* pass of another run); the guard it returns is dropped by ClientRelease
ClientTake ==
    /\ item_pool_owned
    /\ pool_lock = Free
    /\ pool_lock' = GuardLock(Client)
    /\ taken' = SwappedTaken
    /\ delivered' = Delivered(GuardSlice(pool, taken))
    /\ UNCHANGED << pool, length, reserved_items, lines_to_reserve,
                    appended, last_append, reset_seen, unvisited >>
    /\ UNCHANGED << owner_vars, run_args, coord_vars, handle_vars >>
    /\ UNCHANGED other_vars

\* the guard of that caller goes out of scope
ClientRelease ==
    /\ pool_lock = Client
    /\ pool_lock' = Free
    /\ UNCHANGED << pool, length, taken, reserved_items, lines_to_reserve,
                    history >>
    /\ UNCHANGED << owner_vars, run_args, coord_vars, handle_vars >>
    /\ UNCHANGED other_vars

\* the session drops its Arc<ThreadPool>
DropThreadPool ==
    /\ thread_pool_owned
    /\ thread_pool_owned' = FALSE
    /\ UNCHANGED << item_pool_owned, pool_vars, history, run_args,
                    coord_vars, handle_vars >>
    /\ UNCHANGED other_vars

\* the session drops its Arc<DeferDrop<ItemPool>>
DropItemPool ==
    /\ item_pool_owned
    /\ item_pool_owned' = FALSE
    /\ UNCHANGED << thread_pool_owned, pool_vars, history, run_args,
                    coord_vars, handle_vars >>
    /\ UNCHANGED other_vars

\* ------------------------------------------------------- Matcher::run
\* matcher.rs:129
matcher_disabled == disabled \/ query = ""

\* Matcher::run up to the spawn of the coordinator, matcher.rs:117-131 and
\* 224-230; the previous handle, if any, was dropped
run(q, d, prev) ==
    /\ ctl \in {"none", "dropped"}
    /\ ctl' = "live"
    /\ query' = q
    /\ disabled' = d
    /\ previous_results' = prev
    /\ items' = prev
    /\ opt_thread_handle' = TRUE
    /\ pc' = "upgrade_thread_pool"
    /\ UNCHANGED << stopped, processed, matched, items_lock, caller, drained,
                    kill_unvisited >>
    /\ UNCHANGED << num_taken, start, snapshot, group_map, index, heartbeat,
                    engine_calls, degenerate, published, complete >>
    /\ UNCHANGED << pool_vars, history, owner_vars >>
    /\ UNCHANGED other_vars

\* the coordinator holds a strong reference to the worker pool while it is
\* inside thread_pool_strong.install, matcher.rs:132-217
HoldsThreadPool ==
    pc \in { "upgrade_item_pool", "num_taken", "take", "check", "lock",
             "tw_load", "eval", "unlock", "release" }

\* the coordinator holds item_pool_strong, matcher.rs:134-216
HoldsItemPool ==
    pc \in { "num_taken", "take", "check", "lock", "tw_load", "eval",
             "unlock", "release" }

\* Weak::upgrade succeeds while some strong reference is left
CanUpgradeThreadPool == thread_pool_owned \/ HoldsThreadPool
CanUpgradeItemPool == item_pool_owned \/ HoldsItemPool

\* a failed upgrade that returns from the thread at once
AfterUpgradeThreadPool_EarlyReturn ==
    IF CanUpgradeThreadPool THEN "upgrade_item_pool" ELSE "done"

\* a failed upgrade that returns from the thread at once
AfterUpgradeItemPool_EarlyReturn ==
    IF CanUpgradeItemPool THEN "num_taken" ELSE "done"

\* matcher.rs:132: where the coordinator goes after the upgrade
AfterUpgradeThreadPool ==
    IF CanUpgradeThreadPool THEN "upgrade_item_pool" ELSE "notify"

\* matcher.rs:134: where the coordinator goes after the upgrade
AfterUpgradeItemPool ==
    IF CanUpgradeItemPool THEN "num_taken" ELSE "notify"

\* matcher.rs:132
CoordUpgradeThreadPool ==
    /\ pc = "upgrade_thread_pool"
    /\ pc' = AfterUpgradeThreadPool
    /\ degenerate' = ~CanUpgradeThreadPool
    /\ UNCHANGED << num_taken, start, snapshot, group_map, index, heartbeat,
                    engine_calls, published, complete >>
    /\ UNCHANGED << pool_vars, history, owner_vars, run_args, handle_vars >>
    /\ UNCHANGED other_vars

\* matcher.rs:134
CoordUpgradeItemPool ==
    /\ pc = "upgrade_item_pool"
    /\ pc' = AfterUpgradeItemPool
    /\ degenerate' = ~CanUpgradeItemPool
    /\ UNCHANGED << num_taken, start, snapshot, group_map, index, heartbeat,
                    engine_calls, published, complete >>
    /\ UNCHANGED << pool_vars, history, owner_vars, run_args, handle_vars >>
    /\ UNCHANGED other_vars

\* matcher.rs:135, ItemPool::num_taken: a load without the pool's lock
CoordNumTaken ==
    /\ pc = "num_taken"
    /\ num_taken' = taken
    /\ pc' = "take"
    /\ UNCHANGED << start, snapshot, group_map, index, heartbeat,
                    engine_calls, degenerate, published, complete >>
    /\ UNCHANGED << pool_vars, history, owner_vars, run_args, handle_vars >>
    /\ UNCHANGED other_vars

\* the positions (0-based) of a snapshot that a key assignment gives key k
Grouped(ks, k) ==
    LET F[i \in 0..Len(ks)] ==
            IF i = 0 THEN <<>>
            ELSE IF ks[i] = k THEN Append(F[i - 1], i - 1) ELSE F[i - 1]
    IN  F[Len(ks)]

\* matcher.rs:144-161: the key is the address of the closure's argument,
\* which the build chooses; every position is filed under the key its call
\* got, with no cached result
BuildGroupMap(ks) ==
    [k \in { ks[i] : i \in 1..Len(ks) } |-> << Grouped(ks, k), None >>]

\* the keys the calls of the grouping closure may get for a snapshot of n
\* items; the addresses are numbered in the order the loop first meets them
KeyAssignments(n) ==
    { ks \in [1..n -> Addr] :
        \A i \in 1..n : \A k \in 1..(ks[i] - 1) :
            \E j \in 1..(i - 1) : ks[j] = k }

\* matcher.rs:136-161, ItemPool::take and the grouping of the snapshot,
\* which touches nothing shared; the guard lives until CoordRelease
CoordTake ==
    /\ pc = "take"
    /\ pool_lock = Free
    /\ pool_lock' = GuardLock(Coord)
    /\ taken' = SwappedTaken
    /\ start' = taken
    /\ snapshot' = GuardSlice(pool, taken)
    /\ \E ks \in KeyAssignments(Len(snapshot')) :
           group_map' = BuildGroupMap(ks)
    /\ delivered' = Delivered(GuardSlice(pool, taken))
    /\ pc' = "check"
    /\ UNCHANGED << num_taken, index, heartbeat, engine_calls, degenerate,
                    published, complete >>
    /\ UNCHANGED << pool, length, reserved_items, lines_to_reserve,
                    appended, last_append, reset_seen, unvisited >>
    /\ UNCHANGED << owner_vars, run_args, handle_vars >>
    /\ UNCHANGED other_vars

\* matcher.rs:209: where the coordinator goes after loading the flag
AfterCheck == IF stopped THEN "release" ELSE "lock"

\* matcher.rs:209, the load that decides whether the pass publishes
CoordCheck ==
    /\ pc = "check"
    /\ pc' = AfterCheck
    /\ UNCHANGED << num_taken, start, snapshot, group_map, index, heartbeat,
                    engine_calls, degenerate, published, complete >>
    /\ UNCHANGED << pool_vars, history, owner_vars, run_args, handle_vars >>
    /\ UNCHANGED other_vars

\* matcher.rs:210-211, matched_items_strong.lock() and pool.clear()
CoordLock ==
    /\ pc = "lock"
    /\ ~items_lock
    /\ items_lock' = TRUE
    /\ items' = <<>>
    /\ published' = TRUE
    /\ index' = 0
    /\ pc' = "tw_load"
    /\ UNCHANGED << ctl, stopped, processed, matched, opt_thread_handle,
                    caller, drained, kill_unvisited >>
    /\ UNCHANGED << num_taken, start, snapshot, group_map, heartbeat,
                    engine_calls, degenerate, complete >>
    /\ UNCHANGED << pool_vars, history, owner_vars, run_args >>
    /\ UNCHANGED other_vars

\* matcher.rs:163-170: take_while lets the next element through
TakeWhile == index < Len(snapshot) /\ ~stopped

\* matcher.rs:163-170, pulled by pool.extend at matcher.rs:212: the next
\* element of the snapshot, if any, and the load of the cancellation flag
CoordTakeWhileLoad ==
    /\ pc = "tw_load"
    /\ pc' = IF TakeWhile THEN "eval" ELSE "unlock"
    /\ complete' = (index = Len(snapshot))
    /\ UNCHANGED << num_taken, start, snapshot, group_map, index, heartbeat,
                    engine_calls, degenerate, published >>
    /\ UNCHANGED << pool_vars, history, owner_vars, run_args, handle_vars >>
    /\ UNCHANGED other_vars

\* matcher.rs:183-186: the engine is called when the key is filed in the
\* map and its entry holds no cached result
EngineInvoked(key) ==
    /\ key \in DOMAIN group_map
    /\ ~group_map[key][2].some

\* matcher.rs:179-186: the closure of filter_map
FilterMap(key, item) ==
    IF key \in DOMAIN group_map
    THEN IF group_map[key][2].some
         THEN group_map[key][2].v
         ELSE match_item(query, item)
    ELSE None

\* matcher.rs:195,205: item_idx of the entry built for position idx
ItemIdx(idx) == num_taken + idx

\* matcher.rs:189-207: the closure of map
MapItem(idx, res, item) ==
    IF matcher_disabled
    THEN MatchedItem(item, UNMATCHED_RANK, UNMATCHED_RANGE, ItemIdx(idx))
    ELSE MatchedItem(item, res.rank, Some(res.matched_range), ItemIdx(idx))

\* a closure of map with the test of matcher_disabled turned around
MatchedAdd_Inverted == IF matcher_disabled THEN 1 ELSE 0

\* matcher.rs:199: what the closure of map adds to `matched`
MatchedAdd == IF matcher_disabled THEN 0 ELSE 1

\* matcher.rs:171-207,212: processed.fetch_add, then filter_map, map and
\* the push of pool.extend for the item take_while let through
CoordEval ==
    /\ pc = "eval"
    /\ processed' = processed + 1
    /\ \E key \in Addr :
        LET item == snapshot[index + 1]
            res == FilterMap(key, item)
        IN  /\ engine_calls' =
                   IF EngineInvoked(key) THEN engine_calls + 1 ELSE engine_calls
            /\ IF res.some
               THEN /\ items' = Append(items, MapItem(index, res.v, item))
                    /\ matched' = matched + MatchedAdd
               ELSE UNCHANGED << items, matched >>
    /\ index' = index + 1
    /\ pc' = "tw_load"
    /\ UNCHANGED << ctl, stopped, items_lock, opt_thread_handle,
                    caller, drained, kill_unvisited >>
    /\ UNCHANGED << num_taken, start, snapshot, group_map, heartbeat,
                    degenerate, published, complete >>
    /\ UNCHANGED << pool_vars, history, owner_vars, run_args >>
    /\ UNCHANGED other_vars

\* matcher.rs:214, the guard of the result buffer goes out of scope
CoordUnlock ==
    /\ pc = "unlock"
    /\ items_lock' = FALSE
    /\ pc' = "release"
    /\ UNCHANGED << ctl, stopped, processed, matched, items,
                    opt_thread_handle, caller, drained, kill_unvisited >>
    /\ UNCHANGED << num_taken, start, snapshot, group_map, index, heartbeat,
                    engine_calls, degenerate, published, complete >>
    /\ UNCHANGED << pool_vars, history, owner_vars, run_args >>
    /\ UNCHANGED other_vars

\* matcher.rs:215-217, the ItemPoolGuard and the other locals of the closure
\* given to install go out of scope
\* the items of the snapshot the loop of matcher.rs:163-207 did not reach
Unvisited == { snapshot[i] : i \in (index + 1)..Len(snapshot) }

CoordRelease ==
    /\ pc = "release"
    /\ pool_lock' = IF pool_lock = Coord THEN Free ELSE pool_lock
    /\ pc' = "notify"
    /\ num_taken' = 0
    /\ start' = 0
    /\ snapshot' = <<>>
    /\ group_map' = <<>>
    /\ index' = 0
    /\ unvisited' = unvisited \cup Unvisited
    /\ UNCHANGED << pool, length, taken, reserved_items, lines_to_reserve,
                    appended, delivered, last_append, reset_seen >>
    /\ UNCHANGED << heartbeat, engine_calls, degenerate, published,
                    complete >>
    /\ UNCHANGED << owner_vars, run_args, handle_vars >>
    /\ UNCHANGED other_vars

\* matcher.rs:220, tx_heartbeat.send
CoordNotify ==
    /\ pc = "notify"
    /\ heartbeat' = heartbeat + 1
    /\ pc' = "set_stopped"
    /\ UNCHANGED << num_taken, start, snapshot, group_map, index,
                    engine_calls, degenerate, published, complete >>
    /\ UNCHANGED << pool_vars, history, owner_vars, run_args, handle_vars >>
    /\ UNCHANGED other_vars

\* matcher.rs:221, stopped.store(true), and the thread ends
CoordSetStopped ==
    /\ pc = "set_stopped"
    /\ stopped' = TRUE
    /\ pc' = "done"
    /\ UNCHANGED << ctl, processed, matched, items, items_lock,
                    opt_thread_handle, caller, drained, kill_unvisited >>
    /\ UNCHANGED << num_taken, start, snapshot, group_map, index, heartbeat,
                    engine_calls, degenerate, published, complete >>
    /\ UNCHANGED << pool_vars, history, owner_vars, run_args >>
    /\ UNCHANGED other_vars

\* --------------------------------------------------------- MatcherControl
\* a kill() that does not wait for the thread
Joined_NoWait == TRUE

\* matcher.rs:59, handle.join() returns when the coordinator has ended
Joined == pc = "done"

\* matcher.rs:58: kill() joins when it finds a handle
KillJoins == opt_thread_handle

\* matcher.rs:57-58: the store of the flag and opt_thread_handle.take();
\* with no handle left kill() returns at once
KillStore ==
    /\ stopped' = TRUE
    /\ kill_unvisited' =
           IF opt_thread_handle THEN (processed = 0) ELSE kill_unvisited
    /\ opt_thread_handle' = FALSE
    /\ caller' = IF KillJoins THEN "joining" ELSE "idle"

\* MatcherControl::kill, up to the join
kill ==
    /\ ctl = "live"
    /\ caller = "idle"
    /\ UNCHANGED ctl
    /\ KillStore
    /\ UNCHANGED << processed, matched, items, items_lock, drained >>
    /\ UNCHANGED << pool_vars, history, owner_vars, run_args, coord_vars >>
    /\ UNCHANGED other_vars

\* matcher.rs:59: the join returns, and kill() with it
KillJoin ==
    /\ caller = "joining"
    /\ Joined
    /\ caller' = "idle"
    /\ UNCHANGED << ctl, stopped, processed, matched, items, items_lock,
                    opt_thread_handle, drained, kill_unvisited >>
    /\ UNCHANGED << pool_vars, history, owner_vars, run_args, coord_vars >>
    /\ UNCHANGED other_vars

\* a kill() of the run has returned
KillReturned ==
    ctl \in {"live", "dropping"} /\ ~opt_thread_handle /\ caller = "idle"

\* MatcherControl::take, matcher.rs:67-70: it spins until the buffer's lock
\* is free, moves the buffer out and releases the lock
take ==
    /\ ctl = "live"
    /\ caller = "idle"
    /\ ~items_lock
    /\ items' = <<>>
    /\ drained' = TRUE
    /\ UNCHANGED << ctl, stopped, processed, matched, items_lock,
                    opt_thread_handle, caller, kill_unvisited >>
    /\ UNCHANGED << pool_vars, history, owner_vars, run_args, coord_vars >>
    /\ UNCHANGED other_vars

\* an into_items() that does not wait for the flag
into_items_NoSpin ==
    /\ ctl = "live"
    /\ caller = "idle"
    /\ ~items_lock
    /\ items' = <<>>
    /\ drained' = TRUE
    /\ UNCHANGED << ctl, stopped, processed, matched, items_lock,
                    opt_thread_handle, caller, kill_unvisited >>
    /\ UNCHANGED << pool_vars, history, owner_vars, run_args, coord_vars >>
    /\ UNCHANGED other_vars

\* MatcherControl::into_items, matcher.rs:77-82: it spins until it loads
\* stopped = true, then until the buffer's lock is free
into_items ==
    /\ ctl = "live"
    /\ caller = "idle"
    /\ stopped
    /\ ~items_lock
    /\ items' = <<>>
    /\ drained' = TRUE
    /\ UNCHANGED << ctl, stopped, processed, matched, items_lock,
                    opt_thread_handle, caller, kill_unvisited >>
    /\ UNCHANGED << pool_vars, history, owner_vars, run_args, coord_vars >>
    /\ UNCHANGED other_vars

\* impl Drop for MatcherControl, matcher.rs:39-41: kill()
drop ==
    /\ ctl = "live"
    /\ caller = "idle"
    /\ ctl' = "dropping"
    /\ KillStore
    /\ UNCHANGED << processed, matched, items, items_lock, drained >>
    /\ UNCHANGED << pool_vars, history, owner_vars, run_args, coord_vars >>
    /\ UNCHANGED other_vars

\* matcher.rs:43-45: drop(self.take()), after which the fields of the handle
\* are freed; the coordinator, joined by kill(), holds no reference to them
DropTake ==
    /\ ctl = "dropping"
    /\ caller = "idle"
    /\ ~items_lock
    /\ ctl' = "dropped"
    /\ stopped' = FALSE
    /\ processed' = 0
    /\ matched' = 0
    /\ items' = <<>>
    /\ items_lock' = FALSE
    /\ opt_thread_handle' = FALSE
    /\ query' = ""
    /\ disabled' = FALSE
    /\ previous_results' = <<>>
    /\ num_taken' = 0
    /\ start' = 0
    /\ snapshot' = <<>>
    /\ group_map' = <<>>
    /\ index' = 0
    /\ heartbeat' = 0
    /\ caller' = "idle"
    /\ engine_calls' = 0
    /\ degenerate' = FALSE
    /\ published' = FALSE
    /\ drained' = FALSE
    /\ kill_unvisited' = FALSE
    /\ complete' = FALSE
    /\ UNCHANGED pc
    /\ UNCHANGED << pool_vars, history, owner_vars >>
    /\ UNCHANGED other_vars

\* ------------------------------------------------------------ RankBuilder
\* enum RankCriteria, item.rs:226-235
RankCriteria ==
    { "Score", "Begin", "End", "NegScore", "NegBegin", "NegEnd", "Length",
      "NegLength" }

\* the criteria lists a caller may hand over
CriteriaLists == UNION { [1..n -> RankCriteria] : n \in 0..MaxCriteria }

\* Vec::contains
contains(vec, x) == \E i \in 1..Len(vec) : vec[i] = x

\* Vec::dedup: of every run of equal consecutive elements the first stays
dedup(vec) ==
    LET F[i \in 0..Len(vec)] ==
            IF i = 0 THEN <<>>
            ELSE IF i > 1 /\ vec[i] = vec[i - 1]
                 THEN F[i - 1]
                 ELSE Append(F[i - 1], vec[i])
    IN  F[Len(vec)]

\* item.rs:29-31: Score goes to the front when neither score is asked for
WithScore(vec) ==
    IF ~contains(vec, "Score") /\ ~contains(vec, "NegScore")
    THEN << "Score" >> \o vec
    ELSE vec

\* RankBuilder::new, item.rs:28-35
RankBuilder_new ==
    /\ ~rb_built
    /\ criterion' = dedup(WithScore(rb_input))
    /\ rb_built' = TRUE
    /\ UNCHANGED << rb_input, rank_args, rank_out >>
    /\ UNCHANGED << pool_vars, history, owner_vars, run_args, coord_vars,
                    handle_vars, engine_vars, reader_vars,
                    lock_vars >>

\* i32::MAX and i32::MIN: `score` and the slots of a Rank are i32
I32_MAX == 2147483647
I32_MIN == (-I32_MAX) - 1

\* a usize argument, the number hi * 2^31 + lo with lo < 2^31
usize(hi, lo) == [hi |-> hi, lo |-> lo]

\* `begin as i32`, item.rs:40-42: the low 32 bits, read as a signed number
as_i32(u) == IF u.hi % 2 = 1 THEN u.lo + I32_MIN ELSE u.lo

\* unary minus on an i32 in a build without overflow checks: -i32::MIN
\* does not fit and wraps to i32::MIN
wrapping_neg(x) == IF x = I32_MIN THEN I32_MIN ELSE -x

\* the arguments build_rank is called with
Scores == { I32_MIN, -5, 5, I32_MAX }
Begins == { usize(0, 0), usize(0, 1), usize(1, 0) }
Ends == { usize(0, 3) }
Lengths == { usize(0, 10), usize(2, 10) }

\* the match of item.rs:45-54: the signal a criterion reads ...
Operand(criteria, score, begin, end, len) ==
    CASE criteria \in { "Score", "NegScore" } -> score
      [] criteria \in { "Begin", "NegBegin" } -> begin
      [] criteria \in { "End", "NegEnd" } -> end
      [] criteria \in { "Length", "NegLength" } -> len

\* ... and whether the arm applies unary minus to it
Negates(criteria) ==
    criteria \in { "Score", "NegBegin", "NegEnd", "NegLength" }

\* the arm's value when nothing unwinds
value(criteria, score, begin, end, len) ==
    IF Negates(criteria)
    THEN wrapping_neg(Operand(criteria, score, begin, end, len))
    ELSE Operand(criteria, score, begin, end, len)

\* the arm's unary minus overflows
Overflows(criteria, score, begin, end, len) ==
    /\ Negates(criteria)
    /\ Operand(criteria, score, begin, end, len) = I32_MIN

\* what a call leaves behind
Returned(v) == [ret |-> "value", value |-> v]
Panicked == [ret |-> "panic"]

\* self.criterion.iter().take(4), item.rs:44
Used == min(Len(criterion), 4)

\* RankBuilder::build_rank, item.rs:38-60.  Whether an overflowing unary
\* minus panics or wraps is the build's choice (overflow-checks).
build_rank(score, begin, end, len) ==
    /\ rb_built
    /\ rank_args = None
    /\ rank_args' = Some([score |-> score, begin |-> begin, end |-> end,
                          length |-> len])
    /\ \E overflow_checks \in BOOLEAN :
          LET b == as_i32(begin)
              e == as_i32(end)
              l == as_i32(len)
          IN  rank_out' =
                IF /\ overflow_checks
                   /\ \E i \in 1..Used : Overflows(criterion[i], score, b, e, l)
                THEN Panicked
                ELSE Returned([i \in 1..4 |->
                        IF i <= Used
                        THEN value(criterion[i], score, b, e, l)
                        ELSE 0])
    /\ UNCHANGED << rb_input, rb_built, criterion >>
    /\ UNCHANGED << pool_vars, history, owner_vars, run_args, coord_vars,
                    handle_vars, engine_vars, reader_vars,
                    lock_vars >>

\* ----------------------------------------------------- AndEngine, OrEngine
\* MatchRange::ByteRange(start, end) and MatchRange::Chars(vec)
ByteRange(from, to) == << "ByteRange", << from, to >> >>
Chars(vec) == << "Chars", vec >>

\* MatchResult { rank, matched_range }
MatchResult(rank, matched_range) ==
    [rank |-> rank, matched_range |-> matched_range]

\* the texts of the items: "ab", and a text whose first character takes two
\* bytes
Texts == { << 1, 1 >>, << 2, 1 >> }

\* the byte offset of the character with (0-based) index i of txt
ByteOffset(txt, i) ==
    LET F[k \in 0..i] == IF k = 0 THEN 0 ELSE F[k - 1] + txt[k]
    IN  F[i]

\* the matched ranges an engine may report for txt
RangesOf(txt) ==
    { ByteRange(ByteOffset(txt, i), ByteOffset(txt, j)) :
        i \in 0..Len(txt), j \in 0..Len(txt) }
    \cup { Chars(v) :
             v \in UNION { [1..n -> 0..(Len(txt) - 1)] : n \in 0..Len(txt) } }

\* the ranks an engine may report
RanksOf == { << -16, 0, 1, 0 >>, << -8, 1, 2, 0 >> }

\* what a sub-engine may return for an item with text txt
AnswersOf(txt) ==
    { None } \cup { Some(MatchResult(r, m)) : r \in RanksOf, m \in RangesOf(txt) }

\* MatchResult::range_char_indices: the indices of the characters of txt
\* that start inside the byte range, ascending; the vector of a Chars range
range_char_indices(res, txt) ==
    IF res.matched_range[1] = "Chars"
    THEN res.matched_range[2]
    ELSE LET F[i \in 0..Len(txt)] ==
                 IF i = 0 THEN <<>>
                 ELSE IF /\ res.matched_range[2][1] <= ByteOffset(txt, i - 1)
                         /\ ByteOffset(txt, i - 1) < res.matched_range[2][2]
                      THEN Append(F[i - 1], i - 1)
                      ELSE F[i - 1]
         IN  F[Len(txt)]

\* andor.rs:68-78: the vector `ranges` after the loop over the results
Ranges(matches, txt) ==
    LET F[i \in 0..Len(matches)] ==
            IF i = 0 THEN <<>>
            ELSE IF matches[i].matched_range[1] = "ByteRange"
                 THEN F[i - 1] \o range_char_indices(matches[i], txt)
                 ELSE F[i - 1] \o matches[i].matched_range[2]
    IN  F[Len(matches)]

\* a merge that leaves the indices in the order of the sub-results
merge_matched_items_Unsorted(matches, txt) ==
    MatchResult(matches[1].rank, Chars(dedup(Ranges(matches, txt))))

\* AndEngine::merge_matched_items, andor.rs:66-86
merge_matched_items(matches, txt) ==
    MatchResult(matches[1].rank,
                Chars(dedup(SortSeq(Ranges(matches, txt),
                                    LAMBDA a, b : a < b))))

\* andor.rs:93-96, one turn of the loop of AndEngine::match_item: the `?`
\* returns None at the first sub-engine that does not match
AndEval ==
    /\ eng_kind = "And"
    /\ eng_pc = "loop"
    /\ eng_i < Len(engines)
    /\ eng_i' = eng_i + 1
    /\ LET result == engines[eng_i + 1]
       IN  IF result.some
           THEN /\ results' = Append(results, result.v)
                /\ UNCHANGED << eng_pc, ret >>
           ELSE /\ ret' = None
                /\ eng_pc' = "done"
                /\ UNCHANGED results
    /\ UNCHANGED << eng_kind, engines, text >>
    /\ UNCHANGED << pool_vars, history, owner_vars, run_args, coord_vars,
                    handle_vars, rank_vars, reader_vars,
                    lock_vars >>

\* an emptiness test that never sees an empty vector
is_empty_Never(vec) == Len(vec) < 0

\* Vec::is_empty, andor.rs:98
is_empty(vec) == vec = <<>>

\* andor.rs:98-100, after the loop: None, or on to the merge
AndReturn ==
    /\ eng_kind = "And"
    /\ eng_pc = "loop"
    /\ eng_i = Len(engines)
    /\ IF is_empty(results)
       THEN ret' = None /\ eng_pc' = "done"
       ELSE eng_pc' = "merge" /\ UNCHANGED ret
    /\ UNCHANGED << eng_kind, engines, text, eng_i, results >>
    /\ UNCHANGED << pool_vars, history, owner_vars, run_args, coord_vars,
                    handle_vars, rank_vars, reader_vars,
                    lock_vars >>

\* andor.rs:101, the call of merge_matched_items and the return of its value
AndMerge ==
    /\ eng_kind = "And"
    /\ eng_pc = "merge"
    /\ ret' = Some(merge_matched_items(results, text))
    /\ eng_pc' = "done"
    /\ UNCHANGED << eng_kind, engines, text, eng_i, results >>
    /\ UNCHANGED << pool_vars, history, owner_vars, run_args, coord_vars,
                    handle_vars, rank_vars, reader_vars,
                    lock_vars >>

\* a find_map that goes on after a match
OrFound_Never(result) == FALSE

\* andor.rs:28, find_map stops at the first Some
OrFound(result) == result.some

\* andor.rs:28, find_map calls the closure on the next sub-engine
OrEval ==
    /\ eng_kind = "Or"
    /\ eng_pc = "loop"
    /\ eng_i < Len(engines)
    /\ eng_i' = eng_i + 1
    /\ LET result == engines[eng_i + 1]
       IN  IF OrFound(result)
           THEN ret' = result /\ eng_pc' = "done"
           ELSE UNCHANGED << eng_pc, ret >>
    /\ UNCHANGED << eng_kind, engines, text, results >>
    /\ UNCHANGED << pool_vars, history, owner_vars, run_args, coord_vars,
                    handle_vars, rank_vars, reader_vars,
                    lock_vars >>

\* andor.rs:28, find_map at the end of the sub-engines
OrReturn ==
    /\ eng_kind = "Or"
    /\ eng_pc = "loop"
    /\ eng_i = Len(engines)
    /\ ret' = None
    /\ eng_pc' = "done"
    /\ UNCHANGED << eng_kind, engines, text, eng_i, results >>
    /\ UNCHANGED << pool_vars, history, owner_vars, run_args, coord_vars,
                    handle_vars, rank_vars, reader_vars,
                    lock_vars >>

\* ------------------------------------------------- ItemPool::num_not_taken
\* the usize 2^64 - d, which a subtraction that wrapped leaves
Wrapped(d) == [ret |-> "wrapped", below |-> d]

\* a - b on usize, item.rs:155: when b > a a build with overflow checks
\* panics and a build without them wraps
usize_sub(a, b, overflow_checks) ==
    IF a >= b
    THEN Returned(a - b)
    ELSE IF overflow_checks THEN Panicked ELSE Wrapped(b - a)

\* item.rs:155, self.length.load(SeqCst): no lock is taken
num_not_taken_LoadLength ==
    /\ item_pool_owned
    /\ nnt_pc = "idle"
    /\ nnt_length' = length
    /\ nnt_pc' = "loaded_length"
    /\ UNCHANGED << nnt_taken, nnt_ret >>
    /\ UNCHANGED << pool_vars, history, owner_vars, run_args, coord_vars,
                    handle_vars, rank_vars, engine_vars,
                    lock_vars >>

\* item.rs:155, self.taken.load(SeqCst) and the subtraction
num_not_taken_LoadTaken ==
    /\ nnt_pc = "loaded_length"
    /\ nnt_taken' = taken
    /\ \E overflow_checks \in BOOLEAN :
          nnt_ret' = usize_sub(nnt_length, taken, overflow_checks)
    /\ nnt_pc' = "done"
    /\ UNCHANGED nnt_length
    /\ UNCHANGED << pool_vars, history, owner_vars, run_args, coord_vars,
                    handle_vars, rank_vars, engine_vars,
                    lock_vars >>

\* the caller is done with the value and may call again
num_not_taken_Return ==
    /\ nnt_pc = "done"
    /\ nnt_pc' = "idle"
    /\ nnt_length' = 0
    /\ nnt_taken' = 0
    /\ nnt_ret' = None
    /\ UNCHANGED << pool_vars, history, owner_vars, run_args, coord_vars,
                    handle_vars, rank_vars, engine_vars,
                    lock_vars >>

\* ------------------------------------------ the pool's locks, one by one
\* the locks of an ItemPool: `pool` (item.rs:109) and `reserved_items`
\* (item.rs:114)
IsFree(lock) ==
    IF lock = "pool" THEN pool_lock = Free ELSE reserved_lock = Free

\* SpinLock::lock returns once the lock is free, and holds it
Acquire(lock, holder) ==
    /\ IsFree(lock)
    /\ IF lock = "pool"
       THEN pool_lock' = holder /\ UNCHANGED reserved_lock
       ELSE reserved_lock' = holder /\ UNCHANGED pool_lock

\* the ingestion thread calls append() while the source has items
IngestCall ==
    /\ item_pool_owned
    /\ ing_pc = "idle"
    /\ Len(appended) < LockMaxPool
    /\ ing_pc' = "append"
    /\ UNCHANGED << reserved_lock, ui_pc >>
    /\ UNCHANGED << pool_vars, history, owner_vars, run_args, coord_vars,
                    handle_vars, rank_vars, engine_vars, reader_vars >>

\* item.rs:181, let mut pool = self.pool.lock()
append_LockPool ==
    /\ ing_pc = "append"
    /\ Acquire("pool", Ingest)
    /\ ing_pc' = "append_reserved"
    /\ UNCHANGED ui_pc
    /\ UNCHANGED << pool, length, taken, reserved_items, lines_to_reserve >>
    /\ UNCHANGED << history, owner_vars, run_args, coord_vars, handle_vars,
                    rank_vars, engine_vars, reader_vars >>

\* item.rs:182-197: self.reserved_items.lock(), the body of append and the
\* drop of both guards at the return
append_LockReserved(batch) ==
    /\ ing_pc = "append_reserved"
    /\ IsFree("reserved")
    /\ pool' = pool \o AppendToPool(Len(reserved_items), batch)
    /\ reserved_items' =
           reserved_items \o AppendToReserved(Len(reserved_items), batch)
    /\ length' = Len(pool')
    /\ last_append' = Len(pool')
    /\ appended' = appended \o batch
    /\ pool_lock' = Free
    /\ ing_pc' = "idle"
    /\ UNCHANGED << reserved_lock, ui_pc >>
    /\ UNCHANGED << taken, lines_to_reserve, delivered, reset_seen,
                    unvisited >>
    /\ UNCHANGED << owner_vars, run_args, coord_vars, handle_vars,
                    rank_vars, engine_vars, reader_vars >>

\* the methods of the pool the UI thread calls
UiCalls == { "reset", "clear", "reserved" }

\* the UI thread calls reset(), clear() or reserved(); it is one thread
\* and is inside no other call
UiCall(method) ==
    /\ item_pool_owned
    /\ ui_pc = "idle"
    /\ caller = "idle"
    /\ ui_pc' = method
    /\ UNCHANGED << reserved_lock, ing_pc >>
    /\ UNCHANGED << pool_vars, history, owner_vars, run_args, coord_vars,
                    handle_vars, rank_vars, engine_vars, reader_vars >>

\* ItemPool::reset, item.rs:171-175: one lock, held to the return
reset_Locked ==
    /\ ui_pc = "reset"
    /\ IsFree("pool")
    /\ taken' = 0
    /\ reset_seen' = TRUE
    /\ delivered' = <<>>
    /\ unvisited' = {}
    /\ ui_pc' = "idle"
    /\ UNCHANGED << reserved_lock, ing_pc >>
    /\ UNCHANGED << pool, length, reserved_items, lines_to_reserve,
                    pool_lock, appended, last_append >>
    /\ UNCHANGED << owner_vars, run_args, coord_vars, handle_vars,
                    rank_vars, engine_vars, reader_vars >>

\* a clear() that locks the reserved vector first
clear_LockOrder_Reversed == << "reserved", "pool" >>

\* item.rs:163-165: clear() locks the main vector, then the reserved one
clear_LockOrder == << "pool", "reserved" >>

\* item.rs:163, the first lock() of clear()
clear_LockFirst ==
    /\ ui_pc = "clear"
    /\ Acquire(clear_LockOrder[1], Ui)
    /\ ui_pc' = "clear_second"
    /\ UNCHANGED ing_pc
    /\ UNCHANGED << pool, length, taken, reserved_items, lines_to_reserve >>
    /\ UNCHANGED << history, owner_vars, run_args, coord_vars, handle_vars,
                    rank_vars, engine_vars, reader_vars >>

\* item.rs:165-169: the second lock() of clear(), its body and the drop of
\* both guards at the return
clear_LockSecond ==
    /\ ui_pc = "clear_second"
    /\ IsFree(clear_LockOrder[2])
    /\ pool' = <<>>
    /\ reserved_items' = <<>>
    /\ taken' = 0
    /\ length' = 0
    /\ appended' = <<>>
    /\ delivered' = <<>>
    /\ last_append' = -1
    /\ reset_seen' = FALSE
    /\ unvisited' = {}
    /\ pool_lock' = Free
    /\ reserved_lock' = Free
    /\ ui_pc' = "idle"
    /\ UNCHANGED << lines_to_reserve, ing_pc >>
    /\ UNCHANGED << owner_vars, run_args, coord_vars, handle_vars,
                    rank_vars, engine_vars, reader_vars >>

\* ItemPool::reserved, item.rs:205-208: the guard goes to the caller
reserved_Lock ==
    /\ ui_pc = "reserved"
    /\ Acquire("reserved", Ui)
    /\ ui_pc' = "reserved_held"
    /\ UNCHANGED ing_pc
    /\ UNCHANGED << pool, length, taken, reserved_items, lines_to_reserve >>
    /\ UNCHANGED << history, owner_vars, run_args, coord_vars, handle_vars,
                    rank_vars, engine_vars, reader_vars >>

\* the UI thread drops the ItemPoolGuard it got from reserved() before it
\* calls anything else
reserved_DropGuard ==
    /\ ui_pc = "reserved_held"
    /\ reserved_lock' = Free
    /\ ui_pc' = "idle"
    /\ UNCHANGED ing_pc
    /\ UNCHANGED << pool_vars, history, owner_vars, run_args, coord_vars,
                    handle_vars, rank_vars, engine_vars, reader_vars >>

\* the steps inside a call of the ingestion thread
IngestProgress ==
    \/ append_LockPool
    \/ append_LockReserved(NextBatch(1))

\* the steps inside a call of the UI thread on the pool
UiProgress ==
    \/ reset_Locked
    \/ clear_LockFirst
    \/ clear_LockSecond
    \/ reserved_Lock
    \/ reserved_DropGuard

\* ------------------------------------------------------- specifications
Coordinator ==
    \/ CoordUpgradeThreadPool
    \/ CoordUpgradeItemPool
    \/ CoordNumTaken
    \/ CoordTake
    \/ CoordCheck
    \/ CoordLock
    \/ CoordTakeWhileLoad
    \/ CoordEval
    \/ CoordUnlock
    \/ CoordRelease
    \/ CoordNotify
    \/ CoordSetStopped

Handle ==
    \/ kill
    \/ KillJoin
    \/ take
    \/ into_items
    \/ drop
    \/ DropTake

\* the input source hands over at most max_items items, in batches of at
\* most MaxBatch
NextWith(max_items) ==
    \/ \E m \in 1..MaxBatch :
           Len(appended) + m <= max_items /\ append(NextBatch(m))
    \/ reset
    \/ clear
    \/ DropThreadPool
    \/ DropItemPool
    \/ \E q \in Queries, d \in BOOLEAN, prev \in PreviousResults :
           run(q, d, prev)
    \/ Coordinator
    \/ Handle

Next == NextWith(MaxPool)

Spec == Init /\ [][Next]_vars

\* the same program on a shorter input, where the coordinator runs whenever
\* it can take a step: it spins on a lock or runs, it never parks
FairNext == NextWith(FairMaxPool)

FairSpec == Init /\ [][FairNext]_vars /\ WF_vars(Coordinator)

\* the item pool alone, with longer inputs and a second caller of take()
PoolInit == (\E k \in 0..PoolSpecMaxReserve : InitWith(k)) /\ OtherIdle

PoolNext ==
    \/ \E m \in 1..PoolSpecMaxBatch :
           Len(appended) + m <= PoolSpecMaxItems /\ append(NextBatch(m))
    \/ reset
    \/ clear
    \/ ClientTake
    \/ ClientRelease

PoolSpec == PoolInit /\ [][PoolNext]_vars

\* the pool's callers of PoolSpec and a thread that calls num_not_taken
ReaderNext ==
    \/ PoolNext
    \/ num_not_taken_LoadLength
    \/ num_not_taken_LoadTaken
    \/ num_not_taken_Return

ReaderSpec == PoolInit /\ [][ReaderNext]_vars

\* the threads of a session: the ingestion thread in append(), one item
\* a call, the UI thread in reset(), clear(), reserved(), Matcher::run and
\* the calls on the handle, and the coordinator of the run; the pool
\* reserves no line or one, and a run starts on an empty buffer, with or
\* without a query
LockInit == (\E k \in 0..1 : InitWith(k)) /\ OtherIdle

LockNext ==
    \/ IngestCall
    \/ IngestProgress
    \/ \E method \in UiCalls : UiCall(method)
    \/ UiProgress
    \/ \E q \in Queries :
           ui_pc = "idle" /\ run(q, FALSE, <<>>)
    \/ ui_pc = "idle" /\ Handle
    \/ Coordinator

LockSpec == LockInit /\ [][LockNext]_vars

\* the same threads, each of them scheduled: the coordinator and a thread
\* inside kill() or drop() run whenever they can, and a thread that spins
\* on a lock gets it when the lock is free again and again
FairLockSpec ==
    /\ LockInit
    /\ [][LockNext]_vars
    /\ WF_vars(Coordinator)
    /\ SF_vars(CoordTake)
    /\ SF_vars(IngestProgress)
    /\ SF_vars(UiProgress)
    /\ WF_vars(KillJoin)
    /\ WF_vars(DropTake)

\* RankBuilder::new on every criteria list of at most MaxCriteria elements,
\* then one call of build_rank
RankInit ==
    /\ InitWith(0)
    /\ EngineIdle
    /\ ReaderIdle
    /\ LockIdle
    /\ rb_input \in CriteriaLists
    /\ rb_built = FALSE
    /\ criterion = <<>>
    /\ rank_args = None
    /\ rank_out = None

RankNext ==
    \/ RankBuilder_new
    \/ \E score \in Scores, begin \in Begins, end \in Ends, len \in Lengths :
          build_rank(score, begin, end, len)

RankSpec == RankInit /\ [][RankNext]_vars

\* one call of match_item on an AndEngine or an OrEngine of at most
\* MaxEngines sub-engines, for every item text and all they may return
EngineInit ==
    /\ InitWith(0)
    /\ RankIdle
    /\ ReaderIdle
    /\ LockIdle
    /\ eng_kind \in { "And", "Or" }
    /\ text \in Texts
    /\ engines \in UNION { [1..n -> AnswersOf(text)] : n \in 0..MaxEngines }
    /\ eng_pc = "loop"
    /\ eng_i = 0
    /\ results = <<>>
    /\ ret = None

EngineNext ==
    \/ AndEval
    \/ AndReturn
    \/ AndMerge
    \/ OrEval
    \/ OrReturn

EngineSpec == EngineInit /\ [][EngineNext]_vars

\* ----------------------------------------------------------------- claims
\* the handle of the run exists, so its buffer can be locked by a reader
HandleAlive == ctl \in {"live", "dropping"}

\* the pass has visited every item of its snapshot and left the loop
PassComplete == published /\ complete

\* C1: whenever a reader can lock the result buffer it holds the seed
\* previous_results (or nothing, once drained), or the result set of a pass
\* that visited its whole snapshot; a pass cancelled before that leaves no
\* partial set and the seed stays.
C1_NoPartialResults ==
    (HandleAlive /\ ~items_lock) =>
        \/ items = previous_results
        \/ drained /\ items = <<>>
        \/ PassComplete

\* C2: a kill() that stored the flag while processed was 0 and has returned
\* finds the buffer equal to previous_results (stated for a pass that did
\* not reach the end of its snapshot and a buffer nobody drained).
C2_KillBeforeVisitKeepsSeed ==
    (KillReturned /\ kill_unvisited /\ ~drained /\ ~complete)
        => items = previous_results

\* C3: with lines_to_reserve = k and the appended batches concatenating to
\* s (no reset or clear since), reserved() is the first min(k, |s|) items of
\* s, what take() delivers is the rest of s in order, and len() and the
\* value of the last append() are |s|.
C3_EveryItemStoredOnce ==
    (~reset_seen /\ last_append # -1) =>
        LET n == Len(appended)
            h == min(lines_to_reserve, n)
        IN  /\ reserved_items = SubSeq(appended, 1, h)
            /\ delivered \o GuardSlice(pool, taken) = SubSeq(appended, h + 1, n)
            /\ length = n
            /\ last_append = n

\* C4: with disabled set or an empty query, a pass that visited its whole
\* snapshot publishes one entry per snapshot item, with rank [0,0,0,0] and
\* no matched range, and never calls the engine.
C4_DisabledPublishesAll ==
    (matcher_disabled /\ PassComplete /\ pc = "unlock") =>
        /\ Len(items) = Len(snapshot)
        /\ \A i \in 1..Len(items) :
              /\ items[i].item = snapshot[i]
              /\ items[i].rank = UNMATCHED_RANK
              /\ items[i].matched_range = UNMATCHED_RANGE
        /\ engine_calls = 0

\* C5: every entry a pass pushes has item_idx = (the watermark its take()
\* swapped out) + (the position of the item in the snapshot).
C5_ItemIdxFromGuardStart ==
    [][ (pc = "eval" /\ Len(items') = Len(items) + 1)
            => items'[Len(items')].item_idx = start + index ]_vars

InPass == pc \in {"check", "lock", "tw_load", "eval", "unlock", "release"}

C7_BufferLockFreeDuringPass ==
    pc = "eval" => (~items_lock /\ ENABLED take)

\* the step starts a new run in the place of a dropped handle
NewRun == pc' = "upgrade_thread_pool"

\* C8: kill() returns only when the coordinator has ended, a kill() of a
\* handle that was killed before changes nothing and does not wait, and a
\* dropped handle leaves no coordinator running.
C8_KillJoinsCoordinator ==
    /\ KillReturned => pc = "done"
    /\ ctl = "dropped" => pc = "done"
    /\ (ctl = "live" /\ caller = "idle" /\ ~opt_thread_handle)
           => (ENABLED kill /\ ~ENABLED (kill /\ vars' # vars))

C8_Witness ==
    /\ KillReturned
    /\ ctl = "live"
    /\ published
    /\ processed = 1
    /\ ~complete

\* C9: every run ends with one message on the wake channel and then, as the
\* coordinator's last step and after its writes to the result buffer, the
\* store of stopped = true; the flag of a run never goes back to false.
C9_NotifyThenStop ==
    /\ [](pc = "set_stopped" => (heartbeat = 1 /\ ~items_lock))
    /\ [](pc = "done" => (HandleAlive => (heartbeat = 1 /\ stopped)))
    /\ [](pc \notin {"set_stopped", "done"} => heartbeat = 0)
    /\ [][ (pc = "done" /\ ~NewRun)
              => (pc' = "done" /\ items' \in {items, <<>>}) ]_vars
    /\ [][ (stopped /\ HandleAlive /\ ctl' # "dropped") => stopped' ]_vars
    /\ (pc = "upgrade_thread_pool") ~> (pc = "done")

C9_Witness ==
    /\ pc = "done"
    /\ HandleAlive
    /\ opt_thread_handle
    /\ stopped
    /\ heartbeat = 1
    /\ PassComplete
    /\ items # <<>>

\* C10: a run that cannot upgrade the worker pool or the item pool visits
\* nothing: processed and matched stay 0, the buffer keeps previous_results
\* (until its owner drains it), the coordinator leaves `taken` alone, and
\* the run still ends with its wake message and stopped = true.
C10_DegeneratePass ==
    /\ [](degenerate =>
            /\ processed = 0
            /\ matched = 0
            /\ ~published
            /\ items = IF drained THEN <<>> ELSE previous_results
            /\ pc \in {"notify", "set_stopped", "done"}
            /\ pc = "done" => (heartbeat = 1 /\ stopped))
    /\ [][ (degenerate' /\ pc' # pc) => taken' = taken ]_vars

C10_Witness ==
    /\ degenerate
    /\ pc = "done"
    /\ item_pool_owned
    /\ Len(pool) > taken
    /\ previous_results # <<>>
    /\ items = previous_results

\* C11: take() returns the stored items from the old watermark to the
\* current length and moves the watermark to the length, and nothing changes
\* the pool while its guard lives; so, with no reset() or clear() in between,
\* the takes deliver every stored item once, in order, and a take() right
\* after a take() is empty.
C11_TakeDeliversOnce ==
    /\ [](~reset_seen => delivered = SubSeq(pool, 1, taken))
    /\ [](pool_lock = Client =>
            (taken = length /\ GuardSlice(pool, taken) = <<>>))
    /\ [][ (pool_lock = Free /\ pool_lock' = Client) =>
              /\ taken' = length
              /\ delivered' = Delivered(SubSeq(pool, taken + 1, length))
              /\ UNCHANGED << pool, length, reserved_items >> ]_vars
    /\ [][ pool_lock = Client =>
              UNCHANGED << pool, length, taken, reserved_items >> ]_vars

C11_Witness ==
    /\ ~reset_seen
    /\ pool_lock = Client
    /\ delivered = pool
    /\ Len(pool) >= 2

\* the step is the coordinator's ItemPool::take
TakeStep == pc = "take" /\ pc' = "check"

\* C12: reset() sets taken to 0 and leaves the stored items, the reserved
\* items and len() as they are; the watermark then stays at 0 until a
\* take(), and that take() returns the whole main pool from index 0.
C12_ResetRewindsOnly ==
    /\ [][ reset => /\ taken' = 0
                    /\ UNCHANGED << pool, length, reserved_items,
                                    lines_to_reserve >> ]_vars
    /\ [][ (taken = 0 /\ taken' # 0) => TakeStep ]_vars
    /\ [][ (TakeStep /\ taken = 0) => (start' = 0 /\ snapshot' = pool) ]_vars

C12_Witness ==
    /\ reset_seen
    /\ pc = "check"
    /\ num_taken = 2
    /\ start = 0
    /\ Len(pool) = 2
    /\ snapshot = pool

\* C13: clear() leaves len() = 0, num_taken() = 0, no reserved item and
\* nothing for the next take(); the pool is then as ItemPool::new() with the
\* same lines_to_reserve made it, the whole header quota free again.
C13_ClearMakesFresh ==
    [][ clear => /\ pool' = <<>>
                 /\ length' = 0
                 /\ taken' = 0
                 /\ reserved_items' = <<>>
                 /\ GuardSlice(pool', taken') = <<>>
                 /\ pool_lock' = Free
                 /\ lines_to_reserve' = lines_to_reserve
                 /\ lines_to_reserve' - Len(reserved_items')
                        = lines_to_reserve ]_vars

C13_Witness ==
    /\ item_pool_owned
    /\ pool = <<>>
    /\ length = 0
    /\ taken = 0
    /\ reserved_items = <<>>
    /\ lines_to_reserve = 1
    /\ published
    /\ processed = 2

\* C14: whoever acquires the pool's lock, after any append, take, reset and
\* clear, finds taken <= length and length equal to the number of items in
\* the main vector.
C14_WatermarkWithinLength ==
    /\ taken <= length
    /\ length = Len(pool)

C14_Witness ==
    /\ pool_lock = Client
    /\ reset_seen
    /\ taken = length
    /\ Len(pool) >= 2
    /\ reserved_items # <<>>

\* what the engine of query q finds in a snapshot: one entry for each item
\* it matches, in snapshot order, with the result's rank and range
MatchesOf(q, snap) ==
    LET F[i \in 0..Len(snap)] ==
            IF i = 0 THEN <<>>
            ELSE LET res == match_item(q, snap[i])
                 IN  IF res.some
                     THEN Append(F[i - 1],
                                 [item |-> snap[i], rank |-> res.v.rank,
                                  matched_range |-> Some(res.v.matched_range)])
                     ELSE F[i - 1]
    IN  F[Len(snap)]

\* the entries of the result buffer without their item_idx
Published ==
    [i \in 1..Len(items) |->
        [item |-> items[i].item, rank |-> items[i].rank,
         matched_range |-> items[i].matched_range]]

C16_Counters ==
    /\ [](matched <= processed)
    /\ [](InPass => (processed <= Len(snapshot) /\ processed = index))
    /\ [][ ctl' # "dropped" =>
              (processed' >= processed /\ matched' >= matched) ]_vars
    /\ [][ (processed' # processed /\ ctl' # "dropped") =>
              /\ pc = "eval"
              /\ processed' = processed + 1
              /\ index' = index + 1 ]_vars
    /\ []((complete /\ InPass) => processed = Len(snapshot))
    /\ []((published /\ items_lock) =>
              matched = IF matcher_disabled THEN 0 ELSE Len(items))
    /\ [](matcher_disabled => matched = 0)

C16_Witness ==
    /\ pc = "unlock"
    /\ complete
    /\ ~matcher_disabled
    /\ processed = 2
    /\ matched = 1
    /\ Len(items) = 1

\* the owner of the handle is free to call into_items()
CanCallIntoItems == ctl = "live" /\ caller = "idle"

\* C17: into_items() returns only when the coordinator has stored
\* stopped = true and ended; the coordinator of a run that ended writes the
\* buffer no more, so what into_items() drained was its final content; and
\* in every run, degenerate ones too, a caller that waits in into_items()
\* gets to return.
C17_IntoItemsAfterCompletion ==
    /\ [][ into_items => (stopped /\ pc = "done" /\ items' = <<>>) ]_vars
    /\ [][ (pc = "done" /\ HandleAlive /\ items' # items) =>
              (items' = <<>> /\ ~NewRun) ]_vars
    /\ []((CanCallIntoItems /\ pc = "done") => ENABLED into_items)
    /\ (CanCallIntoItems /\ pc # "done")
           ~> (ENABLED into_items \/ ~CanCallIntoItems)

C17_Witness ==
    /\ ctl = "live"
    /\ pc = "done"
    /\ opt_thread_handle
    /\ drained
    /\ PassComplete
    /\ matched = 1
    /\ items = <<>>

\* how often x is in vec
Count(vec, x) == Cardinality({ i \in 1..Len(vec) : vec[i] = x })

\* C18: the criteria list RankBuilder::new yields holds exactly one of
\* Score and NegScore, holds no criterion twice, and is at most one longer
\* than the list handed over.
C18_NormalizedCriteria ==
    rb_built =>
        /\ Count(criterion, "Score") + Count(criterion, "NegScore") = 1
        /\ \A c \in RankCriteria : Count(criterion, c) <= 1
        /\ Len(criterion) <= Len(rb_input) + 1

\* the set of character indices a sub-result stands for in txt
CharIndexSet(res, txt) ==
    IF res.matched_range[1] = "Chars"
    THEN { res.matched_range[2][k] : k \in 1..Len(res.matched_range[2]) }
    ELSE { i \in 0..(Len(txt) - 1) :
             /\ res.matched_range[2][1] <= ByteOffset(txt, i)
             /\ ByteOffset(txt, i) < res.matched_range[2][2] }

\* the elements of a set of numbers as an ascending sequence
Ascending(S) ==
    CHOOSE seq \in [1..Cardinality(S) -> S] :
        \A i \in 1..Cardinality(S) : \A j \in 1..Cardinality(S) :
            i < j => seq[i] < seq[j]

\* the first sub-engine that does not match, 0 if all match
FirstNone ==
    IF \E i \in 1..Len(engines) : ~engines[i].some
    THEN CHOOSE i \in 1..Len(engines) :
             /\ ~engines[i].some
             /\ \A j \in 1..(i - 1) : engines[j].some
    ELSE 0

\* the first sub-engine that matches, 0 if none does
FirstSome ==
    IF \E i \in 1..Len(engines) : engines[i].some
    THEN CHOOSE i \in 1..Len(engines) :
             /\ engines[i].some
             /\ \A j \in 1..(i - 1) : ~engines[j].some
    ELSE 0

\* C19: And(E1, E2, ..).match_item(I) is None when a sub-engine returns None
\* for I, and the sub-engines after that one are not evaluated; otherwise
\* its rank is the rank of E1's result and its range is Chars of the
\* ascending, duplicate-free union of the character indices of all
\* sub-results, byte ranges converted with I's text.
C19_AndMerges ==
    (eng_kind = "And" /\ eng_pc = "done" /\ engines # <<>>) =>
        IF FirstNone # 0
        THEN ret = None /\ eng_i = FirstNone
        ELSE /\ ret.some
             /\ eng_i = Len(engines)
             /\ ret.v.rank = engines[1].v.rank
             /\ ret.v.matched_range =
                    Chars(Ascending(UNION { CharIndexSet(engines[i].v, text) :
                                              i \in 1..Len(engines) }))

C19_Witness ==
    /\ eng_kind = "And"
    /\ eng_pc = "done"
    /\ text = << 2, 1 >>
    /\ Len(engines) = 2
    /\ engines[1].some
    /\ engines[2].some
    /\ engines[1].v.matched_range = Chars(<< 1, 1 >>)
    /\ engines[2].v.matched_range = ByteRange(0, 2)
    /\ engines[1].v.rank # engines[2].v.rank
    /\ ret = Some(MatchResult(engines[1].v.rank, Chars(<< 0, 1 >>)))

\* C20: OrEngine.match_item(I) is the result of the first sub-engine, left
\* to right, that returns Some for I, the sub-engines after it are not
\* evaluated, and it is None exactly when no sub-engine matches.
C20_OrFirstMatch ==
    (eng_kind = "Or" /\ eng_pc = "done") =>
        IF FirstSome # 0
        THEN ret = engines[FirstSome] /\ ret.some /\ eng_i = FirstSome
        ELSE ret = None /\ eng_i = Len(engines)

C20_Witness ==
    /\ eng_kind = "Or"
    /\ eng_pc = "done"
    /\ Len(engines) = 2
    /\ ~engines[1].some
    /\ engines[2].some
    /\ ret = engines[2]
    /\ eng_i = 2
\* a slot holds the number a usize argument stands for
HoldsRaw(v, u) == u.hi = 0 /\ v = u.lo

\* a slot holds the negation of the number a usize argument stands for
HoldsNegRaw(v, u) ==
    \/ u.hi = 0 /\ v = -u.lo
    \/ u.hi = 1 /\ u.lo = 0 /\ v = I32_MIN

\* a slot holds -score; no i32 is the negation of i32::MIN
HoldsNegScore(v, score) == score # I32_MIN /\ v = -score

\* the signed value of a criterion, as the claim words it
SignedValue(v, criteria, a) ==
    CASE criteria = "Score" -> HoldsNegScore(v, a.score)
      [] criteria = "NegScore" -> v = a.score
      [] criteria = "Begin" -> HoldsRaw(v, a.begin)
      [] criteria = "End" -> HoldsRaw(v, a.end)
      [] criteria = "Length" -> HoldsRaw(v, a.length)
      [] criteria = "NegBegin" -> HoldsNegRaw(v, a.begin)
      [] criteria = "NegEnd" -> HoldsNegRaw(v, a.end)
      [] criteria = "NegLength" -> HoldsNegRaw(v, a.length)

\* the arguments (5, 0, 3, 10)
ExampleArgs ==
    [score |-> 5, begin |-> usize(0, 0), end |-> usize(0, 3),
     length |-> usize(0, 10)]

\* C21: build_rank(score, begin, end, length) returns a rank whose slot i
\* (i < 4) is the signed value of the i-th configured criterion (Score
\* gives -score, NegScore gives score, Begin/End/Length the raw value,
\* NegBegin/NegEnd/NegLength its negation), criteria past the fourth are
\* ignored and every unfilled slot is 0; with criteria [Score, Length],
\* build_rank(5, 0, 3, 10) = [-5, 10, 0, 0].
C21_BuildRank ==
    rank_args # None =>
        /\ rank_out.ret = "value"
        /\ \A i \in 1..4 :
              IF i <= Len(criterion)
              THEN SignedValue(rank_out.value[i], criterion[i], rank_args.v)
              ELSE rank_out.value[i] = 0
        /\ (criterion = << "Score", "Length" >> /\ rank_args.v = ExampleArgs)
              => rank_out.value = << -5, 10, 0, 0 >>

\* C22: an AndEngine without sub-engines matches no item: match_item
\* returns None for every item, and merge_matched_items is never called
\* with an empty list of results.
C22_EmptyAndMatchesNothing ==
    /\ (eng_kind = "And" /\ eng_pc = "done" /\ engines = <<>>) => ret = None
    /\ (eng_kind = "And" /\ engines = <<>>) => eng_pc # "merge"
    /\ eng_pc = "merge" => results # <<>>

C22_Witness ==
    /\ eng_kind = "And"
    /\ engines = <<>>
    /\ text = << 2, 1 >>
    /\ eng_pc = "done"
    /\ eng_i = 0
    /\ ret = None

\* C23: the take() of a pass moves the watermark to the pool length when
\* the pass starts, and a pass that is cancelled before it visited all (or
\* any) of its snapshot leaves it there: only reset() and clear() move the
\* watermark back, the items a pass took and did not visit lie below the
\* watermark, and no later take() delivers them before a reset() or clear().
C23_CancelledPassKeepsWatermark ==
    /\ [][ TakeStep => (taken' = Len(pool) /\ start' = taken) ]_vars
    /\ [][ taken' < taken => (reset \/ clear) ]_vars
    /\ [](\A x \in unvisited : \E i \in 1..taken : pool[i] = x)
    /\ [][ TakeStep => \A i \in 1..Len(snapshot') :
                            snapshot'[i] \notin unvisited ]_vars

\* a pass has just taken item 2 after an earlier pass took item 1 and was
\* cancelled before visiting it
C23_Witness ==
    /\ pc = "check"
    /\ ~reset_seen
    /\ unvisited = { 1 }
    /\ pool = << 1, 2 >>
    /\ start = 1
    /\ taken = 2
    /\ snapshot = << 2 >>

\* C24: num_not_taken() never subtracts a `taken` greater than the `length`
\* it read: the subtraction does not underflow and the call returns
\* length - taken, whatever append(), take(), reset() and clear() do
\* meanwhile.
C24_NoUnderflow ==
    nnt_pc = "done" =>
        /\ nnt_taken <= nnt_length
        /\ nnt_ret = Returned(nnt_length - nnt_taken)

\* a thread is inside a call, or the coordinator of the run has not ended
Busy ==
    \/ ing_pc # "idle"
    \/ ui_pc # "idle"
    \/ caller = "joining"
    \/ ctl = "dropping"
    \/ pc \notin { "none", "done" }

\* a step inside a call that has begun, or a step of the coordinator
Progress ==
    \/ IngestProgress
    \/ UiProgress
    \/ Coordinator
    \/ KillJoin
    \/ DropTake

====
